---- MODULE Spec2Model ----
(***************************************************************************)
(* Model of src/Wind_Data_Format.py (class Dataformatter).                 *)
(*                                                                         *)
(* A caller holds tables (pandas DataFrames) in a heap of objects and      *)
(* calls the seven methods of Dataformatter on them.  Every method is      *)
(* modelled together with its effect on the object it was given, with the  *)
(* object it returns (a fresh one, or the argument itself) and with the    *)
(* exception it raises.                                                    *)
(*                                                                         *)
(* Numbers are exact rationals n/d.  Time is counted in minutes since      *)
(* 1999-01-01 00:00.                                                       *)
(***************************************************************************)
EXTENDS Integers, Sequences, FiniteSets, TLC

\* ------------------------------------------------------------------ bounds
MaxCalls     == 2   \* method calls in one run
MaxMetRows   == 1   \* rows of a MET table the caller loads
MaxLidarRows == 2   \* rows of a lidar table the caller loads
MaxEraRows   == 2   \* rows of an ERA5 table the caller loads
MaxTrainRows == 3   \* rows of a training table the caller loads

\* ------------------------------------------------------------ column names
ColTimestamp == "Timestamp"
ColEraTime   == "Date/time [UTC]"
ColHour      == "hour"
ColDir       == "Dir 57.2m S [°]"
ColPres      == "Pres 2m [hPa]"
ColSpd102    == "Spd 102m [m/s]"
ColSpd46     == "Spd 46m [m/s]"
ColShear     == "shear"
ColAdj591    == "adjusted_wind_speed_59.1"
ColEraSpd    == "Spd 100m [m/s]"

\* self.heights["MET"]; a height is named by the text f'{height}' gives
heightsMET == <<"59.1", "46">>

EastCol(h) == "Spd " \o h \o "m E [m/s]"
SwCol(h)   == "Spd " \o h \o "m SW [m/s]"
NewCol(h)  == "adjusted_wind_speed_" \o h

\* ------------------------------------------------------------------- cells
\* One cell of a table.  k is the kind of value:
\*   "num"    the number n/d (d > 0, lowest terms)
\*   "nan"    a missing value (NaN)
\*   "inf"    +infinity (n = 1) or -infinity (n = -1)
\*   "log"    the number ln(n/d) / (m * ln(102/46)), n, d, m > 0
\*   "ts"     a naive datetime64 clock value, minute n
\*   "ts_mtn" a US/Mountain zone-aware datetime64, UTC instant n
\*   "text"   an unparsed timestamp text that reads as minute n
Cell(k, n, d, m) == [k |-> k, n |-> n, d |-> d, m |-> m]

NaN       == Cell("nan", 0, 1, 1)
Inf(s)    == Cell("inf", s, 1, 1)
TS(t)     == Cell("ts", t, 1, 1)
TSMtn(t)  == Cell("ts_mtn", t, 1, 1)
Text(t)   == Cell("text", t, 1, 1)

Abs(x) == IF x < 0 THEN -x ELSE x

RECURSIVE GCD(_, _)
GCD(a, b) == IF b = 0 THEN a ELSE GCD(b, a % b)

RECURSIVE Pow(_, _)
Pow(b, e) == IF e = 0 THEN 1 ELSE b * Pow(b, e - 1)

\* the number n/d, d # 0, in lowest terms
Num(n, d) ==
    LET s == IF d < 0 THEN -1 ELSE 1
        g == GCD(Abs(n), Abs(d))
    IN  Cell("num", (s * n) \div g, (s * d) \div g, 1)

Int2Num(i) == Num(i, 1)

LogCell(n, d, m) ==
    LET g == GCD(n, d) IN Cell("log", n \div g, d \div g, m)

IsNum(c)     == c.k = "num"
IsNaN(c)     == c.k = "nan"
IsNumeric(c) == c.k \in {"num", "nan", "inf", "log"}
IsDatetime(c) == c.k \in {"ts", "ts_mtn"}

\* float comparison a < b; any comparison with NaN is False
FLt(a, b) ==
    /\ IsNum(a)
    /\ IsNum(b)
    /\ a.n * b.d < b.n * a.d

FLe(a, b) ==
    /\ IsNum(a)
    /\ IsNum(b)
    /\ a.n * b.d <= b.n * a.d

\* float addition
FAdd(a, b) ==
    IF IsNaN(a) \/ IsNaN(b) THEN NaN
    ELSE IF a.k = "inf" /\ b.k = "inf" THEN (IF a.n = b.n THEN a ELSE NaN)
    ELSE IF a.k = "inf" THEN a
    ELSE IF b.k = "inf" THEN b
    ELSE IF a.k = "log" /\ b.k = "log"
         THEN LET L == (a.m * b.m) \div GCD(a.m, b.m)
                  ea == L \div a.m
                  eb == L \div b.m
              IN  LogCell(Pow(a.n, ea) * Pow(b.n, eb),
                          Pow(a.d, ea) * Pow(b.d, eb), L)
    ELSE Num(a.n * b.d + b.n * a.d, a.d * b.d)

\* float multiplication by the number s
FMul(a, s) ==
    IF IsNaN(a) \/ IsNaN(s) THEN NaN
    ELSE Num(a.n * s.n, a.d * s.d)

\* float division by the positive integer k
FDivInt(a, k) ==
    IF IsNaN(a) \/ a.k = "inf" THEN a
    ELSE IF a.k = "log" THEN Cell("log", a.n, a.d, a.m * k)
    ELSE Num(a.n, a.d * k)

\* np.log(a / b) / np.log(102/46) on floats
LogRatio(a, b) ==
    IF IsNaN(a) \/ IsNaN(b) THEN NaN
    ELSE IF b.n = 0
         THEN (IF a.n > 0 THEN Inf(1) ELSE NaN)
    ELSE IF a.n = 0 THEN Inf(-1)
    ELSE IF (a.n > 0) # (b.n > 0) THEN NaN
    ELSE LogCell(Abs(a.n) * b.d, a.d * Abs(b.n), 1)

\* ---------------------------------------------------------------- calendar
IsLeap(y) == (y % 4 = 0 /\ y % 100 # 0) \/ y % 400 = 0
DaysInYear(y) == IF IsLeap(y) THEN 366 ELSE 365

\* the year and the 0-based day of the year of day number day, counted from y
RECURSIVE YearFrom(_, _)
YearFrom(y, day) ==
    IF day < DaysInYear(y) THEN [year |-> y, doy0 |-> day]
    ELSE YearFrom(y + 1, day - DaysInYear(y))

\* day number of January 1st of year y
RECURSIVE YearStart(_)
YearStart(y) == IF y = 1999 THEN 0 ELSE YearStart(y - 1) + DaysInYear(y - 1)

DayOfYear(t) == YearFrom(1999, t \div 1440).doy0 + 1
HourOfDay(t) == (t % 1440) \div 60
YearOf(t)    == YearFrom(1999, t \div 1440).year

\* the hour of the year counted from a 1-based day (dt.dayofyear * 24 + dt.hour)
HourOfYear_from1(t) == DayOfYear(t) * 24 + HourOfDay(t)

\* (dt.dayofyear - 1) * 24 + dt.hour
HourOfYear(t) == (DayOfYear(t) - 1) * 24 + HourOfDay(t)

\* 0 = Sunday; 1999-01-01 was a Friday
DayOfWeek(day) == (day + 5) % 7

MonthLen(y) ==
    <<31, IF IsLeap(y) THEN 29 ELSE 28, 31, 30, 31, 30, 31, 31, 30, 31, 30, 31>>

RECURSIVE SumMonths(_, _)
SumMonths(y, k) == IF k = 0 THEN 0 ELSE MonthLen(y)[k] + SumMonths(y, k - 1)

\* day number of the first day of month month of year y
DaysBefore(y, month) == YearStart(y) + SumMonths(y, month - 1)

FirstSundayFrom(day) == day + ((7 - DayOfWeek(day)) % 7)
LastSundayUpTo(day)  == day - DayOfWeek(day)

\* US/Mountain daylight time holds at the UTC instant t
\* (1987-2006: first Sunday of April to last Sunday of October;
\*  from 2007: second Sunday of March to first Sunday of November;
\*  the switch is at 02:00 local, 09:00 UTC in spring and 08:00 UTC in autumn)
IsDST(t) ==
    LET y     == YearOf(t)
        start == IF y < 2007 THEN FirstSundayFrom(DaysBefore(y, 4))
                 ELSE FirstSundayFrom(DaysBefore(y, 3)) + 7
        end   == IF y < 2007 THEN LastSundayUpTo(DaysBefore(y, 11) - 1)
                 ELSE FirstSundayFrom(DaysBefore(y, 11))
    IN  /\ t >= start * 1440 + 9 * 60
        /\ t <  end * 1440 + 8 * 60

\* dt.tz_convert('US/Mountain') followed by dt.tz_localize(None):
\* the Mountain clock value of the UTC instant t
MountainClock(t) == IF IsDST(t) THEN t - 6 * 60 ELSE t - 7 * 60

\* minute of year-month-day hh:mm
At(y, mo, dd, hh, mi) ==
    (DaysBefore(y, mo) + dd - 1) * 1440 + hh * 60 + mi

\* ------------------------------------------------------------------ tables
\* A table (DataFrame): the set of its column names, its rows (each a
\* function from the column names to cells), and its index: idxName is ""
\* for the default index and "Timestamp" after set_index('Timestamp');
\* idx[i] is the index label of row i.
Table(cols, rows, idxName, idx) ==
    [cols |-> cols, rows |-> rows, idxName |-> idxName, idx |-> idx]

NRows(t) == Len(t.rows)

\* the default RangeIndex 0 .. n-1
RangeIdx(n) == [i \in 1..n |-> Int2Num(i - 1)]

\* wind_data[c]
Column(t, c) == [i \in 1..NRows(t) |-> t.rows[i][c]]

\* wind_data[c] = vals (vals[i] is the value of row i)
SetColumn(t, c, vals) ==
    [t EXCEPT !.cols = @ \cup {c},
              !.rows = [i \in 1..NRows(t) |->
                          [x \in t.cols \cup {c} |->
                              IF x = c THEN vals[i] ELSE t.rows[i][x]]]]

\* the rows of t at the positions keep[1], keep[2], ... (with their labels)
TakeRows(t, keep) ==
    [t EXCEPT !.rows = [j \in 1..Len(keep) |-> t.rows[keep[j]]],
              !.idx  = [j \in 1..Len(keep) |-> t.idx[keep[j]]]]

\* the positions at which the boolean sequence mask is true, in increasing order
RECURSIVE Positions(_)
Positions(mask) ==
    IF Len(mask) = 0 THEN <<>>
    ELSE LET n    == Len(mask)
             rest == Positions(SubSeq(mask, 1, n - 1))
         IN  IF mask[n] THEN Append(rest, n) ELSE rest

\* wind_data.set_index('Timestamp', inplace=True)
SetIndexTimestamp(t) ==
    Table(t.cols \ {ColTimestamp},
          [i \in 1..NRows(t) |-> [x \in t.cols \ {ColTimestamp} |-> t.rows[i][x]]],
          ColTimestamp,
          Column(t, ColTimestamp))

\* data.reset_index(inplace=True) of a table indexed by Timestamp
ResetIndex(t) ==
    Table(t.cols \cup {ColTimestamp},
          [i \in 1..NRows(t) |->
              [x \in t.cols \cup {ColTimestamp} |->
                  IF x = ColTimestamp THEN t.idx[i] ELSE t.rows[i][x]]],
          "",
          RangeIdx(NRows(t)))

\* pd.api.types.is_datetime64_any_dtype(wind_data[c])
is_datetime64_any_dtype(t, c) == \A i \in 1..NRows(t) : IsDatetime(t.rows[i][c])

\* what a call did: arg is the caller's table after the call, kind tells
\* whether the call returned nothing (it raised err), returned its argument
\* ("same") or returned a new table res ("new")
Raised(arg, err)  == [arg |-> arg, kind |-> "none", res |-> arg, err |-> err]
ReturnedSame(arg) == [arg |-> arg, kind |-> "same", res |-> arg, err |-> ""]
ReturnedNew(arg, res) == [arg |-> arg, kind |-> "new", res |-> res, err |-> ""]

\* --------------------------------------------------------------- resampling
RECURSIVE SumCells(_)
SumCells(s) == IF Len(s) = 1 THEN s[1] ELSE FAdd(s[1], SumCells(Tail(s)))

\* the mean of the cells of s that are not missing; missing if there is none
Mean(s) ==
    LET present == SelectSeq(s, LAMBDA c : ~IsNaN(c))
    IN  IF Len(present) = 0 THEN NaN
        ELSE FDivInt(SumCells(present), Len(present))

\* start of the bucket of width w (minutes) that holds minute ts
BucketStart(ts, w) == (ts \div w) * w

MinOf(S) == CHOOSE x \in S : \A y \in S : x <= y
MaxOf(S) == CHOOSE x \in S : \A y \in S : x >= y

\* the members of a set of integers in increasing order
RECURSIVE Ascending(_)
Ascending(S) == IF S = {} THEN <<>> ELSE <<MinOf(S)>> \o Ascending(S \ {MinOf(S)})

\* resampling that leaves out the buckets without rows
ResampleMean_dropempty(t, w) ==
    IF NRows(t) = 0 THEN t
    ELSE
    LET starts == {BucketStart(t.idx[i].n, w) : i \in 1..NRows(t)}
        order  == Ascending(starts)
        Members(b) == Positions([i \in 1..NRows(t) |->
                        BucketStart(t.idx[i].n, w) = order[b]])
    IN  Table(t.cols,
              [b \in 1..Len(order) |->
                  [c \in t.cols |->
                      Mean([j \in 1..Len(Members(b)) |-> t.rows[Members(b)[j]][c]])]],
              ColTimestamp,
              [b \in 1..Len(order) |-> TS(order[b])])

\* wind_data.resample(w).mean() of a table indexed by Timestamp
ResampleMean(t, w) ==
    IF NRows(t) = 0 THEN t
    ELSE
    LET starts == {BucketStart(t.idx[i].n, w) : i \in 1..NRows(t)}
        first  == MinOf(starts)
        nb     == (MaxOf(starts) - first) \div w + 1
        Members(b) == Positions([i \in 1..NRows(t) |->
                        BucketStart(t.idx[i].n, w) = first + (b - 1) * w])
    IN  Table(t.cols,
              [b \in 1..nb |->
                  [c \in t.cols |->
                      Mean([j \in 1..Len(Members(b)) |-> t.rows[Members(b)[j]][c]])]],
              ColTimestamp,
              [b \in 1..nb |-> TS(first + (b - 1) * w)])

AllNumeric(t) ==
    \A i \in 1..NRows(t) : \A c \in t.cols : IsNumeric(t.rows[i][c])

\* Dataformatter.hourly_format
hourly_format(wind_data) ==
    IF ColTimestamp \notin wind_data.cols THEN Raised(wind_data, "KeyError")
    ELSE IF ~is_datetime64_any_dtype(wind_data, ColTimestamp)
    THEN Raised(wind_data, "AssertionError")
    ELSE
    LET indexed == SetIndexTimestamp(wind_data)
    IN  IF ~AllNumeric(indexed) THEN Raised(indexed, "TypeError")
        ELSE
        LET hourly_data == ResetIndex(ResampleMean(indexed, 60))
            hour == [i \in 1..NRows(hourly_data) |->
                        Int2Num(HourOfYear(hourly_data.rows[i][ColTimestamp].n))]
        IN  ReturnedNew(indexed, SetColumn(hourly_data, ColHour, hour))

\* Dataformatter.hour3_format
hour3_format(wind_data) ==
    IF ColTimestamp \notin wind_data.cols THEN Raised(wind_data, "KeyError")
    ELSE IF ~is_datetime64_any_dtype(wind_data, ColTimestamp)
    THEN Raised(wind_data, "AssertionError")
    ELSE
    LET indexed == SetIndexTimestamp(wind_data)
    IN  IF ~AllNumeric(indexed) THEN Raised(indexed, "TypeError")
        ELSE ReturnedNew(indexed, ResetIndex(ResampleMean(indexed, 360)))

\* ------------------------------------------------------- MET sensor fusion
InSector(d, lo, hi) == FLe(Int2Num(lo), d) /\ FLe(d, Int2Num(hi))

\* the columns adjusted_wind_helper reads in a row whose direction is d
HelperReads(d, east_col, sw_col) ==
    IF InSector(d, 30, 60) THEN {east_col}
    ELSE IF InSector(d, 255, 285) THEN {sw_col}
    ELSE {east_col, sw_col}

\* adjusted_wind_helper with the upper end of the east sector left out
adjusted_wind_helper_open(row, wdir, east_col, sw_col) ==
    IF FLe(Int2Num(30), row[wdir]) /\ FLt(row[wdir], Int2Num(60)) THEN row[east_col]
    ELSE IF InSector(row[wdir], 255, 285) THEN row[sw_col]
    ELSE FDivInt(FAdd(row[east_col], row[sw_col]), 2)

\* Dataformatter.adjusted_wind_helper
adjusted_wind_helper(row, wdir, east_col, sw_col) ==
    IF InSector(row[wdir], 30, 60) THEN row[east_col]
    ELSE IF InSector(row[wdir], 255, 285) THEN row[sw_col]
    ELSE FDivInt(FAdd(row[east_col], row[sw_col]), 2)

\* row[...] raises KeyError inside adjusted_wind_helper
HelperRaises(t, i, wdir, east_col, sw_col) ==
    \/ wdir \notin t.cols
    \/ ~(HelperReads(t.rows[i][wdir], east_col, sw_col) \subseteq t.cols)

\* the body of the loop of adjust_wind_met for the heights i, i+1, ...
\* applied to the table t: the table it leaves and the error it raised
RECURSIVE AdjustLoop(_, _)
AdjustLoop(t, i) ==
    IF i > Len(heightsMET) THEN [tab |-> t, err |-> ""]
    ELSE
    LET wdirec   == ColDir
        east_col == EastCol(heightsMET[i])
        sw_col   == SwCol(heightsMET[i])
        new_col  == NewCol(heightsMET[i])
    IN  IF NRows(t) = 0
        THEN \* apply() of an empty frame gives a frame, not a column
             [tab |-> t, err |-> "ValueError"]
        ELSE IF \E r \in 1..NRows(t) : HelperRaises(t, r, wdirec, east_col, sw_col)
        THEN [tab |-> t, err |-> "KeyError"]
        ELSE AdjustLoop(
                SetColumn(t, new_col,
                    [r \in 1..NRows(t) |->
                        adjusted_wind_helper(t.rows[r], wdirec, east_col, sw_col)]),
                i + 1)

\* Dataformatter.adjust_wind_met
adjust_wind_met(wind_data) ==
    LET looped == AdjustLoop(wind_data, 1)
    IN  IF looped.err # "" THEN Raised(looped.tab, looped.err)
        ELSE IF ColPres \notin looped.tab.cols THEN Raised(looped.tab, "KeyError")
        ELSE ReturnedSame(
                SetColumn(looped.tab, ColPres,
                    [r \in 1..NRows(looped.tab) |->
                        FDivInt(looped.tab.rows[r][ColPres], 10)]))

\* ------------------------------------------------------------------- ERA5
\* pd.to_datetime(cell, utc=True): the UTC instant of a timestamp cell
ToUTC(c) == c.n

\* '2000-01-01 00:00:00' read as a UTC time
TruncateFrom_utc == At(2000, 1, 1, 0, 0)

\* the UTC instant of '2000-01-01 00:00:00' read in US/Mountain
TruncateFrom == At(2000, 1, 1, 0, 0) + 7 * 60

\* format_era5 truncating the caller's table itself (no .copy())
format_era5_inplace(wind_data) ==
    IF ColEraTime \notin wind_data.cols THEN Raised(wind_data, "KeyError")
    ELSE
    LET n         == NRows(wind_data)
        instant   == [i \in 1..n |-> ToUTC(wind_data.rows[i][ColEraTime])]
        converted == SetColumn(wind_data, ColEraTime,
                        [i \in 1..n |-> TSMtn(instant[i])])
        withHour  == SetColumn(converted, ColHour,
                        [i \in 1..n |-> Int2Num(HourOfYear(MountainClock(instant[i])))])
        kept      == TakeRows(withHour,
                        Positions([i \in 1..n |-> instant[i] >= At(2000, 1, 1, 7, 0)]))
        m         == NRows(kept)
        outCols   == (kept.cols \ {ColEraTime}) \cup {ColTimestamp}
    IN  ReturnedNew(kept,
            Table(outCols,
                  [i \in 1..m |->
                      [c \in outCols |->
                          IF c = ColTimestamp
                          THEN TS(MountainClock(kept.rows[i][ColEraTime].n))
                          ELSE kept.rows[i][c]]],
                  kept.idxName,
                  kept.idx))

\* Dataformatter.format_era5
format_era5(wind_data) ==
    IF ColEraTime \notin wind_data.cols THEN Raised(wind_data, "KeyError")
    ELSE
    LET n         == NRows(wind_data)
        instant   == [i \in 1..n |-> ToUTC(wind_data.rows[i][ColEraTime])]
        converted == SetColumn(wind_data, ColEraTime,
                        [i \in 1..n |-> TSMtn(instant[i])])
        withHour  == SetColumn(converted, ColHour,
                        [i \in 1..n |-> Int2Num(HourOfYear(MountainClock(instant[i])))])
        kept      == TakeRows(withHour,
                        Positions([i \in 1..n |-> instant[i] >= TruncateFrom]))
        m         == NRows(kept)
        outCols   == (kept.cols \ {ColEraTime}) \cup {ColTimestamp}
        formatted_data ==
            Table(outCols,
                  [i \in 1..m |->
                      [c \in outCols |->
                          IF c = ColTimestamp
                          THEN TS(MountainClock(kept.rows[i][ColEraTime].n))
                          ELSE kept.rows[i][c]]],
                  kept.idxName,
                  kept.idx)
    IN  ReturnedNew(withHour, formatted_data)

\* ------------------------------------------------------------ date range
\* concurrent_data with the end boundary left out (< for <=)
concurrent_data_open(wind_data, start_date, end_date) ==
    IF ColTimestamp \notin wind_data.cols THEN Raised(wind_data, "KeyError")
    ELSE IF \E i \in 1..NRows(wind_data) : wind_data.rows[i][ColTimestamp].k # "ts"
    THEN Raised(wind_data, "TypeError")
    ELSE
    LET mask == [i \in 1..NRows(wind_data) |->
                    /\ wind_data.rows[i][ColTimestamp].n >= start_date
                    /\ wind_data.rows[i][ColTimestamp].n < end_date]
    IN  ReturnedNew(wind_data, TakeRows(wind_data, Positions(mask)))

\* Dataformatter.concurrent_data; start_date and end_date are naive minutes
concurrent_data(wind_data, start_date, end_date) ==
    IF ColTimestamp \notin wind_data.cols THEN Raised(wind_data, "KeyError")
    ELSE IF \E i \in 1..NRows(wind_data) : wind_data.rows[i][ColTimestamp].k # "ts"
    THEN Raised(wind_data, "TypeError")
    ELSE
    LET mask == [i \in 1..NRows(wind_data) |->
                    /\ wind_data.rows[i][ColTimestamp].n >= start_date
                    /\ wind_data.rows[i][ColTimestamp].n <= end_date]
    IN  ReturnedNew(wind_data, TakeRows(wind_data, Positions(mask)))

\* ------------------------------------------------------------ wind shear
\* Dataformatter.wind_shear
wind_shear(lidar_data) ==
    IF ColSpd102 \notin lidar_data.cols \/ ColSpd46 \notin lidar_data.cols
    THEN Raised(lidar_data, "KeyError")
    ELSE
    LET n      == NRows(lidar_data)
        wsp_1  == Column(lidar_data, ColSpd102)
        wsp_0  == Column(lidar_data, ColSpd46)
        sheared == SetColumn(lidar_data, ColShear,
                        [i \in 1..n |-> LogRatio(wsp_1[i], wsp_0[i])])
    IN  IF ColTimestamp \notin sheared.cols THEN Raised(sheared, "KeyError")
        ELSE ReturnedNew(sheared,
                Table({ColTimestamp, ColShear},
                      [i \in 1..n |->
                          [c \in {ColTimestamp, ColShear} |-> sheared.rows[i][c]]],
                      sheared.idxName,
                      sheared.idx))

\* ---------------------------------------------------------- label rescaler
FSub(a, b) == FAdd(a, FMul(b, Int2Num(-1)))
FSquare(a) == FMul(a, a)

\* np.mean(column): the mean of the values that are not missing
NpMean(col) == Mean(col)

\* the square of np.std(column) (population variance, missing values skipped)
NpVar(col) ==
    LET present == SelectSeq(col, LAMBDA c : ~IsNaN(c))
    IN  Mean([i \in 1..Len(present) |-> FSquare(FSub(present[i], NpMean(col)))])

\* x > mean + std, for std = sqrt(var) >= 0
AboveHigh(x, mean, var) == FLt(mean, x) /\ FLt(var, FSquare(FSub(x, mean)))

\* x < mean - std
BelowMid(x, mean, var) == FLt(x, mean) /\ FLt(var, FSquare(FSub(x, mean)))

\* scale_training_data with the high threshold included (>= for >)
scale_training_data_ge(wind_data, scale_up, scale_mid) ==
    IF ColAdj591 \notin wind_data.cols THEN Raised(wind_data, "KeyError")
    ELSE
    LET col     == Column(wind_data, ColAdj591)
        mean    == NpMean(col)
        var     == NpVar(col)
        high_ix == [i \in 1..Len(col) |->
                       FLe(mean, col[i]) /\ FLe(var, FSquare(FSub(col[i], mean)))]
        mid_ix  == [i \in 1..Len(col) |-> BelowMid(col[i], mean, var)]
        upped   == [i \in 1..Len(col) |->
                       IF high_ix[i] THEN FMul(col[i], scale_up) ELSE col[i]]
        scaled  == [i \in 1..Len(col) |->
                       IF mid_ix[i] THEN FMul(upped[i], scale_mid) ELSE upped[i]]
    IN  ReturnedNew(wind_data, SetColumn(wind_data, ColAdj591, scaled))

\* scale_training_data without the copy (scaled_data = wind_data)
scale_training_data_nocopy(wind_data, scale_up, scale_mid) ==
    IF ColAdj591 \notin wind_data.cols THEN Raised(wind_data, "KeyError")
    ELSE
    LET col     == Column(wind_data, ColAdj591)
        mean    == NpMean(col)
        var     == NpVar(col)
        high_ix == [i \in 1..Len(col) |-> AboveHigh(col[i], mean, var)]
        mid_ix  == [i \in 1..Len(col) |-> BelowMid(col[i], mean, var)]
        upped   == [i \in 1..Len(col) |->
                       IF high_ix[i] THEN FMul(col[i], scale_up) ELSE col[i]]
        scaled  == [i \in 1..Len(col) |->
                       IF mid_ix[i] THEN FMul(upped[i], scale_mid) ELSE upped[i]]
    IN  ReturnedSame(SetColumn(wind_data, ColAdj591, scaled))

\* Dataformatter.scale_training_data
scale_training_data(wind_data, scale_up, scale_mid) ==
    IF ColAdj591 \notin wind_data.cols THEN Raised(wind_data, "KeyError")
    ELSE
    LET col     == Column(wind_data, ColAdj591)
        mean    == NpMean(col)
        var     == NpVar(col)
        high_ix == [i \in 1..Len(col) |-> AboveHigh(col[i], mean, var)]
        mid_ix  == [i \in 1..Len(col) |-> BelowMid(col[i], mean, var)]
        upped   == [i \in 1..Len(col) |->
                       IF high_ix[i] THEN FMul(col[i], scale_up) ELSE col[i]]
        scaled  == [i \in 1..Len(col) |->
                       IF mid_ix[i] THEN FMul(upped[i], scale_mid) ELSE upped[i]]
    IN  ReturnedNew(wind_data, SetColumn(wind_data, ColAdj591, scaled))

\* ------------------------------------------------------ the caller's inputs
\* directions around both sector boundaries
DirSamples == {29, 30, 60, 61, 254, 255, 285, 286}

\* readings of the four MET anemometers: east 59.1m, sw 59.1m, east 46m, sw 46m
SpeedSamples == { <<Int2Num(4), Int2Num(7), Int2Num(3), Int2Num(6)>>,
                  <<Int2Num(9), Int2Num(5), NaN, Int2Num(2)>> }

MetCols == {ColTimestamp, ColDir, EastCol("59.1"), SwCol("59.1"),
            EastCol("46"), SwCol("46"), ColPres}

MetBase == At(2001, 6, 1, 0, 0)

MetRow(i, d, v, cols) ==
    [c \in cols |->
        IF c = ColTimestamp THEN TS(MetBase + 10 * (i - 1))
        ELSE IF c = ColDir THEN Int2Num(d)
        ELSE IF c = EastCol("59.1") THEN v[1]
        ELSE IF c = SwCol("59.1") THEN v[2]
        ELSE IF c = EastCol("46") THEN v[3]
        ELSE IF c = SwCol("46") THEN v[4]
        ELSE Num(1013, 1)]

\* sequences over S of length 1..n
SeqsUpTo(S, n) == UNION {[1..k -> S] : k \in 1..n}

\* MET tables, complete or with one required column absent
MetTables ==
    { Table(cols,
            [i \in 1..Len(ch) |-> MetRow(i, ch[i][1], ch[i][2], cols)],
            "", RangeIdx(Len(ch))) :
        ch \in SeqsUpTo(DirSamples \X SpeedSamples, MaxMetRows),
        cols \in {MetCols, MetCols \ {ColPres}, MetCols \ {SwCol("46")}} }

TrainSamples == {1, 5, 10}

TrainTables ==
    { Table({ColTimestamp, ColAdj591},
            [i \in 1..Len(ch) |->
                [c \in {ColTimestamp, ColAdj591} |->
                    IF c = ColTimestamp THEN TS(MetBase + 60 * (i - 1))
                    ELSE Int2Num(ch[i])]],
            "", RangeIdx(Len(ch))) :
        ch \in SeqsUpTo(TrainSamples, MaxTrainRows) }

\* lidar timestamps: a base minute and offsets that fall in the same hour,
\* in the next hour and several hours later
LidarBases   == {At(2001, 12, 31, 22, 0), At(2000, 12, 31, 22, 0), At(2001, 1, 2, 2, 0)}
LidarOffsets == {0, 20, 70, 500}

\* readings at 102m and 46m
LidarSpeeds == { <<Int2Num(10), Int2Num(8)>>, <<Int2Num(6), Int2Num(0)>> }

LidarCols == {ColTimestamp, ColSpd102, ColSpd46}

LidarTable(base, ch, kind) ==
    Table(LidarCols,
          [i \in 1..Len(ch) |->
              [c \in LidarCols |->
                  IF c = ColTimestamp THEN Cell(kind, base + ch[i][1], 1, 1)
                  ELSE IF c = ColSpd102 THEN ch[i][2][1]
                  ELSE ch[i][2][2]]],
          "", RangeIdx(Len(ch)))

\* lidar tables read with parsed timestamps, and one-row tables whose
\* timestamps were left as text
LidarTables ==
    { LidarTable(base, ch, "ts") :
        base \in LidarBases,
        ch \in SeqsUpTo(LidarOffsets \X LidarSpeeds, MaxLidarRows) }
    \cup
    { LidarTable(At(2001, 12, 31, 22, 0), ch, "text") :
        ch \in SeqsUpTo(LidarOffsets \X LidarSpeeds, 1) }

\* ERA5 timestamps (UTC): hours around 2000-01-01 00:00 Mountain time and
\* around the start of daylight time on 2000-04-02
EraBases   == {At(2000, 1, 1, 5, 0), At(2000, 4, 2, 7, 0)}
EraOffsets == {0, 60, 120, 180}

EraTables ==
    { Table({ColEraTime, ColEraSpd},
            [i \in 1..Len(ch) |->
                [c \in {ColEraTime, ColEraSpd} |->
                    IF c = ColEraTime THEN Text(base + ch[i])
                    ELSE Int2Num(5 + i)]],
            "", RangeIdx(Len(ch))) :
        base \in EraBases,
        ch \in SeqsUpTo(EraOffsets, MaxEraRows) }

ScaleUps  == {Int2Num(2), Num(1, 2)}
ScaleMids == {Int2Num(1), Int2Num(3)}

\* boundaries the caller passes to concurrent_data for the table t: the first
\* row's timestamp or one minute later as start, the first or the last row's
\* timestamp as end
HasTimes(t) ==
    /\ ColTimestamp \in t.cols
    /\ NRows(t) > 0
    /\ \A i \in 1..NRows(t) : t.rows[i][ColTimestamp].k = "ts"

StartChoices(t) ==
    IF HasTimes(t)
    THEN {t.rows[1][ColTimestamp].n, t.rows[1][ColTimestamp].n + 1}
    ELSE {MetBase}

EndChoices(t) ==
    IF HasTimes(t)
    THEN {t.rows[1][ColTimestamp].n, t.rows[NRows(t)][ColTimestamp].n}
    ELSE {MetBase}

\* ------------------------------------------------------------ state machine
VARIABLES
    heap,    \* the tables that exist, by object identity 1..Len(heap)
    cur,     \* the table the caller passes to the next call
    ret,     \* the table the last call returned, 0 if it raised
    err,     \* the exception the last call raised, "" if none
    op,      \* the method called last
    args,    \* the other arguments of the last call
    pre,     \* the heap as it was when the last call was made
    calls    \* number of calls made

vars == <<heap, cur, ret, err, op, args, pre, calls>>

NoArgs == [start |-> 0, end |-> 0, scale_up |-> NaN, scale_mid |-> NaN]

Init ==
    /\ heap \in {<<t>> : t \in MetTables \cup TrainTables \cup LidarTables \cup EraTables}
    /\ cur = 1
    /\ ret = 0
    /\ err = ""
    /\ op = "load"
    /\ args = NoArgs
    /\ pre = heap
    /\ calls = 0

\* the caller calls a method on heap[cur]; out is what the method did
Call(name, out, a) ==
    /\ calls < MaxCalls
    /\ calls' = calls + 1
    /\ op' = name
    /\ args' = a
    /\ pre' = heap
    /\ err' = out.err
    /\ heap' = IF out.kind = "new"
               THEN Append([heap EXCEPT ![cur] = out.arg], out.res)
               ELSE [heap EXCEPT ![cur] = out.arg]
    /\ ret' = IF out.kind = "new" THEN Len(heap) + 1
              ELSE IF out.kind = "same" THEN cur
              ELSE 0
    /\ UNCHANGED cur

HourlyFormat == Call("hourly_format", hourly_format(heap[cur]), NoArgs)

Hour3Format == Call("hour3_format", hour3_format(heap[cur]), NoArgs)

AdjustWindMet == Call("adjust_wind_met", adjust_wind_met(heap[cur]), NoArgs)

FormatEra5 == Call("format_era5", format_era5(heap[cur]), NoArgs)

ConcurrentData ==
    \E start_date \in StartChoices(heap[cur]), end_date \in EndChoices(heap[cur]) :
        Call("concurrent_data",
             concurrent_data(heap[cur], start_date, end_date),
             [NoArgs EXCEPT !.start = start_date, !.end = end_date])

WindShear == Call("wind_shear", wind_shear(heap[cur]), NoArgs)

ScaleTrainingData ==
    \E scale_up \in ScaleUps, scale_mid \in ScaleMids :
        Call("scale_training_data",
             scale_training_data(heap[cur], scale_up, scale_mid),
             [NoArgs EXCEPT !.scale_up = scale_up, !.scale_mid = scale_mid])

\* the caller goes on with the table the last call returned
Take ==
    /\ ret # 0
    /\ ret # cur
    /\ cur' = ret
    /\ ret' = 0
    /\ err' = ""
    /\ op' = "take"
    /\ args' = NoArgs
    /\ pre' = heap
    /\ UNCHANGED <<heap, calls>>

Next ==
    \/ HourlyFormat
    \/ Hour3Format
    \/ AdjustWindMet
    \/ FormatEra5
    \/ ConcurrentData
    \/ WindShear
    \/ ScaleTrainingData
    \/ Take

Spec == Init /\ [][Next]_vars

TypeOK ==
    /\ cur \in 1..Len(heap)
    /\ ret \in 0..Len(heap)
    /\ calls \in 0..MaxCalls

\* ---------------------------------------------------------------- properties
Before == pre[cur]       \* the caller's table when the last call was made
After  == heap[cur]      \* the caller's table now
Result == heap[ret]      \* the table the last call returned (when ret # 0)

Succeeded(name) == op = name /\ err = ""

\* the table was returned as a new object
IsNew(id) == id > Len(pre)

\* exact arithmetic on the cells of a column, by a common denominator
RECURSIVE LcmDen(_, _)
LcmDen(col, k) ==
    IF k = 0 THEN 1
    ELSE LET r == LcmDen(col, k - 1)
             d == IF IsNum(col[k]) THEN col[k].d ELSE 1
         IN  (r * d) \div GCD(r, d)

AsInt(c, D) == c.n * (D \div c.d)

RECURSIVE SumInt(_, _, _)
SumInt(col, k, D) ==
    IF k = 0 THEN 0
    ELSE SumInt(col, k - 1, D) + (IF IsNum(col[k]) THEN AsInt(col[k], D) ELSE 0)

RECURSIVE SumSqInt(_, _, _)
SumSqInt(col, k, D) ==
    IF k = 0 THEN 0
    ELSE SumSqInt(col, k - 1, D)
         + (IF IsNum(col[k]) THEN AsInt(col[k], D) * AsInt(col[k], D) ELSE 0)

CountNum(col) == Cardinality({i \in 1..Len(col) : IsNum(col[i])})

\* ---- C1
InEastSector(d) == IsNum(d) /\ 30 * d.d <= d.n /\ d.n <= 60 * d.d
InWestSector(d) == IsNum(d) /\ 255 * d.d <= d.n /\ d.n <= 285 * d.d

HalfSum(e, sw) ==
    IF IsNaN(e) \/ IsNaN(sw) THEN NaN
    ELSE Num(e.n * sw.d + sw.n * e.d, 2 * e.d * sw.d)

IsHigh(col, i) ==
    LET D == LcmDen(col, Len(col))
        n == CountNum(col)
        S == SumInt(col, Len(col), D)
        Q == SumSqInt(col, Len(col), D)
        x == AsInt(col[i], D)
    IN  IsNum(col[i]) /\ n * x - S > 0 /\ (n * x - S) * (n * x - S) > n * Q - S * S

IsLow(col, i) ==
    LET D == LcmDen(col, Len(col))
        n == CountNum(col)
        S == SumInt(col, Len(col), D)
        Q == SumSqInt(col, Len(col), D)
        x == AsInt(col[i], D)
    IN  IsNum(col[i]) /\ n * x - S < 0 /\ (n * x - S) * (n * x - S) > n * Q - S * S

Times(c, s) == Num(c.n * s.n, c.d * s.d)

\* C2: scale_training_data returns the input with every value above
\* mean + std multiplied by scale_up, every value below mean - std multiplied
\* by scale_mid and every other value (the thresholds included) unchanged;
\* no value gets both multipliers, and with scale_mid = 1 and no value above
\* mean + std the output equals the input.
C2_ScaleByThreshold ==
    Succeeded("scale_training_data") =>
        LET col == Column(Before, ColAdj591)
            out == Column(Result, ColAdj591)
        IN  /\ Len(out) = Len(col)
            /\ \A i \in 1..Len(col) :
                /\ IsHigh(col, i) => out[i] = Times(col[i], args.scale_up)
                /\ IsLow(col, i) => out[i] = Times(col[i], args.scale_mid)
                /\ ~IsHigh(col, i) /\ ~IsLow(col, i) => out[i] = col[i]
                /\ ~(IsHigh(col, i) /\ IsLow(col, i))
            /\ (args.scale_mid = Int2Num(1) /\ \A i \in 1..Len(col) : ~IsHigh(col, i))
                    => Result = Before

\* one call that scales a high row and a low row and leaves a row that is
\* exactly at a threshold or between them
C2_Witness ==
    /\ Succeeded("scale_training_data")
    /\ args.scale_mid = Int2Num(3)
    /\ LET col == Column(Before, ColAdj591)
           out == Column(Result, ColAdj591)
       IN  /\ \E i \in 1..Len(col) : IsHigh(col, i) /\ out[i] # col[i]
           /\ \E i \in 1..Len(col) : IsLow(col, i) /\ out[i] # col[i]
           /\ \E i \in 1..Len(col) : ~IsHigh(col, i) /\ ~IsLow(col, i) /\ out[i] = col[i]

\* a two-row table: both values lie exactly on a threshold and stay as they are
C2_WitnessAtThreshold ==
    /\ Succeeded("scale_training_data")
    /\ NRows(Before) = 2
    /\ Before.rows[1][ColAdj591] # Before.rows[2][ColAdj591]
    /\ Result = Before

\* ---- C3
\* every table other than the caller's is as it was before the call
OthersUntouched == \A id \in 1..Len(pre) : id # cur => heap[id] = pre[id]

\* the columns in cs hold the same cells before and after the call
SameColumns(cs) ==
    /\ NRows(After) = NRows(Before)
    /\ \A i \in 1..NRows(Before) : \A c \in cs : After.rows[i][c] = Before.rows[i][c]

C4_FailureLeavesNoTrace ==
    err # "" => (heap = pre /\ ret = 0)

\* ---- C5
\* C5: scale_training_data never changes a table that existed before the
\* call, and the table it returns is a new one, distinct from its argument.
C5_ScaleNeverMutates ==
    op = "scale_training_data" =>
        /\ \A id \in 1..Len(pre) : heap[id] = pre[id]
        /\ err = "" => (IsNew(ret) /\ ret # cur)

\* a second call on a table, which returned scaled values and left the
\* argument with its unscaled values
C5_Witness ==
    /\ Succeeded("scale_training_data")
    /\ calls >= 2
    /\ Result # Before
    /\ After = Before
    /\ ret # cur

\* ---- C6
\* C6: concurrent_data returns exactly the rows with
\* start <= Timestamp <= end, unaltered and in their order; both ends are
\* inclusive, and the result is empty when start > end.
C6_InclusiveRange ==
    Succeeded("concurrent_data") =>
        LET InRange(r) == /\ args.start <= r[ColTimestamp].n
                          /\ r[ColTimestamp].n <= args.end
        IN  /\ Result.rows = SelectSeq(Before.rows, InRange)
            /\ Result.cols = Before.cols
            /\ args.start > args.end => NRows(Result) = 0

\* start = end: the one row at that minute is kept, the others are dropped
C6_Witness ==
    /\ Succeeded("concurrent_data")
    /\ args.start = args.end
    /\ NRows(Result) = 1
    /\ NRows(Before) > 1
    /\ Result.rows[1][ColTimestamp].n = args.end

Resampled == Succeeded("hourly_format") \/ Succeeded("hour3_format")

\* bucket width in minutes of the resampler called last
Width == IF op = "hourly_format" THEN 60 ELSE 360

\* start of the clock-aligned bucket of width w that holds minute t
\* (day 0 of the time scale starts at 00:00 and w divides a day)
FloorTo(t, w) == t - (t % w)

\* the cell r is the arithmetic mean of the cells of column c of Before in
\* the rows whose timestamp lies in [from, from + w); missing if the bucket
\* holds no value
IsBucketMean(r, c, from, w) ==
    LET n    == NRows(Before)
        In(i) == /\ from <= Before.rows[i][ColTimestamp].n
                 /\ Before.rows[i][ColTimestamp].n < from + w
                 /\ ~IsNaN(Before.rows[i][c])
        M    == {i \in 1..n : In(i)}
        colM == [i \in 1..n |-> IF In(i) THEN Before.rows[i][c] ELSE NaN]
        D    == LcmDen(colM, n)
    IN  IF M = {} THEN r = NaN
        ELSE (\A i \in M : IsNum(Before.rows[i][c]))
                => (IsNum(r) /\ r.n * D * Cardinality(M) = SumInt(colM, n, D) * r.d)

C8_WitnessAverage ==
    /\ Succeeded("hourly_format")
    /\ NRows(Before) = 2
    /\ NRows(Result) = 1
    /\ Before.rows[1][ColSpd102] = Int2Num(10)
    /\ Before.rows[2][ColSpd102] = Int2Num(6)
    /\ Result.rows[1][ColSpd102] = Int2Num(8)

\* ---- C9
\* h is the number of whole hours from the start of the calendar year of
\* minute t to t
IsHourOfYear(h, t) ==
    \E y \in 1999..2002 :
        /\ YearStart(y) * 1440 <= t
        /\ t < YearStart(y + 1) * 1440
        /\ h = Int2Num((t - YearStart(y) * 1440) \div 60)

\* C9: in every row returned by hourly_format and by format_era5, hour is
\* (day_of_year - 1) * 24 + hour_of_day of the row's timestamp (the bucket
\* start, the Mountain clock value): 0 for Jan 1st 00:00, 27 for Jan 2nd
\* 03:00, 8759 for Dec 31st 23:00 of a non-leap year, and within 0..8783.
C9_HourOfYear ==
    (Succeeded("hourly_format") \/ Succeeded("format_era5")) =>
        /\ ColHour \in Result.cols
        /\ \A i \in 1..NRows(Result) :
            LET t == Result.rows[i][ColTimestamp].n
                h == Result.rows[i][ColHour]
            IN  /\ IsHourOfYear(h, t)
                /\ IsNum(h) /\ h.d = 1 /\ h.n \in 0..8783
                /\ t \in {At(2000, 1, 1, 0, 0), At(2001, 1, 1, 0, 0),
                          At(2002, 1, 1, 0, 0)} => h.n = 0
                /\ t = At(2001, 1, 2, 3, 0) => h.n = 27
                /\ t = At(2001, 12, 31, 23, 0) => h.n = 8759

\* hourly_format returned the bucket of Dec 31st 23:00 of the non-leap year
\* 2001 with hour 8759
C9_Witness ==
    /\ Succeeded("hourly_format")
    /\ \E i \in 1..NRows(Result) :
        /\ Result.rows[i][ColTimestamp] = TS(At(2001, 12, 31, 23, 0))
        /\ Result.rows[i][ColHour] = Int2Num(8759)

\* format_era5 returned a row in daylight time with the hour of its
\* Mountain clock value
C9_WitnessEra5 ==
    /\ Succeeded("format_era5")
    /\ \E i \in 1..NRows(Result) :
        /\ Result.rows[i][ColTimestamp] = TS(At(2000, 4, 2, 3, 0))
        /\ Result.rows[i][ColHour] = Int2Num((31 + 29 + 31 + 1) * 24 + 3)

\* ---- C10
\* the caller's table was the argument of a successful resampler call:
\* Timestamp is its index and not a column
IndexedByTimestamp(t) == t.idxName = ColTimestamp /\ ColTimestamp \notin t.cols

\* C10: a successful resampler call leaves Timestamp as the index of the
\* caller's table; a later resampler, concurrent_data or wind_shear call on
\* that table fails with a missing-field error and leaves it unchanged; the
\* returned table can be resampled again.
C10_ReuseAfterResample ==
    /\ Resampled => (IndexedByTimestamp(After) /\ ~IndexedByTimestamp(Result))
    /\ (/\ op \in {"hourly_format", "hour3_format", "concurrent_data", "wind_shear"}
        /\ IndexedByTimestamp(Before))
            => (err = "KeyError" /\ After = Before)

====
